---- MODULE Spec2Model ----
(***************************************************************************)
(* Model of the automatic keyword linker of DHS_KeywordSystem              *)
(* (src/app/keyword_linker.py).  Text is a sequence of one-character       *)
(* strings.  A call of link_keywords_in_html / link_keywords_in_markdown   *)
(* is a small state machine: the catalog query and planning (lines 34-74   *)
(* and 157-197), then one re.sub pass per candidate (lines 78-111 and      *)
(* 201-214), then the return.  The sitemap cache of src/app/sitemap.py is  *)
(* modelled with the admin requests that change the store and the requests *)
(* that call generate_sitemap, each request a sequence of steps.           *)
(***************************************************************************)
EXTENDS Integers, Sequences, FiniteSets, TLC

VARIABLES
    categories,          \* table keyword_categories: sequence of rows, by id
    keywords,            \* table learning_keywords: sequence of rows, by id
    aliases,             \* table keyword_aliases: sequence of rows, by id
    content,             \* html_content / markdown_content of the current call
    current_keyword_id,  \* 0 stands for None
    sorted_titles,       \* the planned candidates <<title, target_url>>
    idx,                 \* position of the for loop over sorted_titles
    result,              \* the working copy of the document
    pc,                  \* "start" | "loop" | "done" | "raised"
    calls,               \* 1 for the first call, 2 for the call on its own output
    inserted,            \* every link a pass has inserted so far (history)
    keyword_cache,       \* KeywordLinker._keyword_cache of the shared instance
    cache_timestamp,     \* KeywordLinker._cache_timestamp of the shared instance
    fetched,             \* the rows the first query of the call returned
    snapshots,           \* the committed stores there were during the call (history)
    cache_file,          \* instance/cache/sitemap.xml of the SitemapManager
    session,             \* the transaction of the admin request in progress
    gen                  \* the generate_sitemap call in progress

storeVars == <<categories, keywords, aliases>>

\* The fields of the one KeywordLinker instance every request uses
\* (keyword_linker.py:16-19, 219-220).
instanceVars == <<keyword_cache, cache_timestamp>>

queryVars == <<fetched, snapshots>>

linkVars == <<content, current_keyword_id, sorted_titles, idx, result, pc,
              calls, inserted, keyword_cache, cache_timestamp, fetched,
              snapshots>>

sitemapVars == <<cache_file, session, gen>>

vars == <<categories, keywords, aliases, content, current_keyword_id,
          sorted_titles, idx, result, pc, calls, inserted, keyword_cache,
          cache_timestamp, fetched, snapshots, cache_file, session, gen>>

----------------------------------------------------------------------------
(* Bounds of the model. *)

MaxFrags == 3
MaxKeywords == 2
MaxAliases == 1
MaxPlanAliases == 2
MaxCommits == 2

----------------------------------------------------------------------------
(* Characters and Python string primitives. *)

\* str.lower() on the letters of the model's alphabet; every other character
\* of the alphabet has no case.
LowerChar(c) ==
    CASE c = "A" -> "a"
      [] c = "B" -> "b"
      [] c = "C" -> "c"
      [] OTHER -> c

Lower(s) == [i \in 1..Len(s) |-> LowerChar(s[i])]

\* Unicode code points of the characters titles are made of (ORDER BY title).
CodePoint(c) ==
    CASE c = " " -> 32
      [] c = "(" -> 40
      [] c = ")" -> 41
      [] c = "+" -> 43
      [] c = "<" -> 60
      [] c = ">" -> 62
      [] c = "A" -> 65
      [] c = "B" -> 66
      [] c = "C" -> 67
      [] c = "\\" -> 92
      [] c = "a" -> 97
      [] c = "b" -> 98
      [] c = "c" -> 99
      [] OTHER -> 0

IsAlnum(c) == c \in {"a", "b", "c", "A", "B", "C", "2"}

IsSpace(c) == c = " "

\* s[from..] and s[..to] with Python's slicing conventions (1-based here).
Drop(s, n) == SubSeq(s, n + 1, Len(s))
Take(s, n) == SubSeq(s, 1, n)

\* str.strip()
RECURSIVE LStrip(_)
LStrip(s) == IF s # <<>> /\ IsSpace(s[1]) THEN LStrip(Tail(s)) ELSE s

RECURSIVE RStrip(_)
RStrip(s) ==
    IF s # <<>> /\ IsSpace(s[Len(s)]) THEN RStrip(Take(s, Len(s) - 1)) ELSE s

Strip(s) == RStrip(LStrip(s))

\* sub occurs in s at index i (1-based), compared exactly.
IsAt(s, sub, i) ==
    /\ i >= 1
    /\ i + Len(sub) - 1 <= Len(s)
    /\ \A k \in 1..Len(sub) : s[i + k - 1] = sub[k]

\* str.count(ch) for a single character.
Count(s, ch) == Cardinality({i \in 1..Len(s) : s[i] = ch})

\* str.find(sub) and str.rfind(sub); 0-based like Python, -1 when absent.
Find(s, sub) ==
    LET hits == {i \in 1..Len(s) : IsAt(s, sub, i)}
    IN  IF hits = {} THEN -1
        ELSE (CHOOSE i \in hits : \A j \in hits : i <= j) - 1

RFind(s, sub) ==
    LET hits == {i \in 1..Len(s) : IsAt(s, sub, i)}
    IN  IF hits = {} THEN -1
        ELSE (CHOOSE i \in hits : \A j \in hits : i >= j) - 1

\* "".join of a sequence of strings.
RECURSIVE Concat(_)
Concat(ss) == IF ss = <<>> THEN <<>> ELSE Head(ss) \o Concat(Tail(ss))

----------------------------------------------------------------------------
(* The store: categories, keywords and aliases, and their slugs and URLs. *)

\* models.py slugify: lower and strip, every non-alphanumeric character
\* becomes "-", runs of "-" collapse to one, leading and trailing "-" go.
RECURSIVE Condense(_)
Condense(s) ==
    IF Len(s) < 2 THEN s
    ELSE IF s[1] = "-" /\ s[2] = "-" THEN Condense(Tail(s))
    ELSE <<s[1]>> \o Condense(Tail(s))

RECURSIVE LStripDash(_)
LStripDash(s) == IF s # <<>> /\ s[1] = "-" THEN LStripDash(Tail(s)) ELSE s

RECURSIVE RStripDash(_)
RStripDash(s) ==
    IF s # <<>> /\ s[Len(s)] = "-" THEN RStripDash(Take(s, Len(s) - 1)) ELSE s

slugify(value) ==
    LET slug == Strip(Lower(value))
        allowed == [i \in 1..Len(slug) |->
                       IF IsAlnum(slug[i]) THEN slug[i] ELSE "-"]
    IN  RStripDash(LStripDash(Condense(allowed)))

\* admin/routes.py _generate_unique_alias_slug: slugify(title) or "alias",
\* then "-2", "-3", ... until the slug is used by no keyword and no alias.
\* The model holds at most two rows with the same base slug besides the new
\* one, so the counter stops at 3.
generate_unique_alias_slug(title, used_slugs) ==
    LET base_slug == IF slugify(title) = <<>>
                     THEN <<"a", "l", "i", "a", "s">>
                     ELSE slugify(title)
    IN  IF base_slug \notin used_slugs THEN base_slug
        ELSE IF base_slug \o <<"-", "2">> \notin used_slugs
             THEN base_slug \o <<"-", "2">>
        ELSE base_slug \o <<"-", "3">>

\* The one category of the model, KeywordCategory(name="c").
category_name == <<"c">>

\* keyword_categories: the one row, public or not (models.py:83-92).
CategoryTables ==
    { << [id |-> 1, name |-> category_name, slug |-> slugify(category_name),
          is_public |-> pub] >>
      : pub \in BOOLEAN }

PublicCategoryTables == {c \in CategoryTables : c[1].is_public}

\* flask url_for("main.keyword_detail", category_slug=..., slug=...) for the
\* route "/<string:category_slug>/<string:slug>" (main/routes.py:200).  Slugs
\* consist of ASCII letters, digits and "-", which URL quoting leaves alone.
url_for(category_slug, slug) == <<"/">> \o category_slug \o <<"/">> \o slug

\* Lexicographic comparison of titles by code point: a > b.
RECURSIVE TitleGreater(_, _)
TitleGreater(a, b) ==
    IF a = <<>> THEN FALSE
    ELSE IF b = <<>> THEN TRUE
    ELSE IF CodePoint(a[1]) # CodePoint(b[1])
         THEN CodePoint(a[1]) > CodePoint(b[1])
    ELSE TitleGreater(Tail(a), Tail(b))

\* Every order in which ORDER BY title DESC may return the rows: rows with
\* equal titles come in an order the database chooses.
OrderByTitleDesc(rows) ==
    LET n == Cardinality(rows)
    IN  {q \in [1..n -> rows] :
            /\ \A i, j \in 1..n : i # j => q[i] # q[j]
            /\ \A i \in 1..n - 1 : ~TitleGreater(q[i + 1].title, q[i].title)}

Range(q) == {q[i] : i \in 1..Len(q)}

\* Mutant of KeywordQuery: the current keyword is not filtered out.
KeywordQueryKeepsCurrent(kws, current) == {kw \in Range(kws) : kw.is_public}

\* LearningKeyword.query.filter_by(is_public=True), minus the current keyword
\* when current_keyword_id is truthy (lines 34-38).
KeywordQuery(kws, current) ==
    {kw \in Range(kws) : kw.is_public /\ (current # 0 => kw.id # current)}

\* KeywordAlias.query.join(LearningKeyword).filter(is_public), minus the
\* aliases of the current keyword (lines 40-43).
AliasQuery(kws, als, current) ==
    {al \in Range(als) :
        /\ \E kw \in Range(kws) : kw.id = al.keyword_id /\ kw.is_public
        /\ (current # 0 => al.keyword_id # current)}

\* Mutant of AppendTargets: titles that were seen before are not skipped.
RECURSIVE AppendTargetsNoSeen(_, _)
AppendTargetsNoSeen(link_targets, rows) ==
    IF rows = <<>> THEN link_targets
    ELSE LET title == Strip(Head(rows).title)
             target == <<title, url_for(slugify(category_name), Head(rows).slug)>>
         IN  IF title = <<>>
             THEN AppendTargetsNoSeen(link_targets, Tail(rows))
             ELSE AppendTargetsNoSeen(Append(link_targets, target), Tail(rows))

\* The two loops that fill link_targets (lines 45-72): strip, drop empty
\* titles, keep the first title of each lower-cased key.
RECURSIVE AppendTargets(_, _)
AppendTargets(link_targets, rows) ==
    IF rows = <<>> THEN link_targets
    ELSE LET title == Strip(Head(rows).title)
             title_key == Lower(title)
             seen_titles == {Lower(t[1]) : t \in Range(link_targets)}
             target == <<title, url_for(slugify(category_name), Head(rows).slug)>>
         IN  IF title = <<>> \/ title_key \in seen_titles
             THEN AppendTargets(link_targets, Tail(rows))
             ELSE AppendTargets(Append(link_targets, target), Tail(rows))

\* Mutant of LinkTargets: the aliases are left out of link_targets.
LinkTargetsKeywordsOnly(kw_rows, alias_rows) == AppendTargets(<<>>, kw_rows)

LinkTargets(kw_rows, alias_rows) ==
    AppendTargets(AppendTargets(<<>>, kw_rows), alias_rows)

\* Mutant of InsertByLen: a sort that is not stable, a title goes before the
\* titles of its own length.
RECURSIVE InsertByLenBeforeEqual(_, _)
InsertByLenBeforeEqual(sorted, t) ==
    IF sorted = <<>> THEN <<t>>
    ELSE IF Len(t[1]) >= Len(sorted[1][1]) THEN <<t>> \o sorted
    ELSE <<sorted[1]>> \o InsertByLenBeforeEqual(Tail(sorted), t)

\* sorted(link_targets, key=len(title), reverse=True) (line 74): a stable
\* sort, done here by insertion.
RECURSIVE InsertByLen(_, _)
InsertByLen(sorted, t) ==
    IF sorted = <<>> THEN <<t>>
    ELSE IF Len(t[1]) > Len(sorted[1][1]) THEN <<t>> \o sorted
    ELSE <<sorted[1]>> \o InsertByLen(Tail(sorted), t)

RECURSIVE SortedByLen(_)
SortedByLen(link_targets) ==
    IF link_targets = <<>> THEN <<>>
    ELSE InsertByLen(SortedByLen(Take(link_targets, Len(link_targets) - 1)),
                     link_targets[Len(link_targets)])

----------------------------------------------------------------------------
(* Matching: re.escape(title) with re.IGNORECASE is a literal comparison   *)
(* that ignores letter case.                                               *)

MatchAt(s, i, title) ==
    /\ i >= 1
    /\ i + Len(title) - 1 <= Len(s)
    /\ \A k \in 1..Len(title) : LowerChar(s[i + k - 1]) = LowerChar(title[k])

\* The start indices (1-based) at which re.sub finds the pattern: leftmost
\* first, the scan resuming right after each match.
RECURSIVE HtmlMatches(_, _, _)
HtmlMatches(s, title, i) ==
    LET hits == {j \in i..Len(s) - Len(title) + 1 : MatchAt(s, j, title)}
    IN  IF hits = {} THEN <<>>
        ELSE LET m == CHOOSE j \in hits : \A h \in hits : j <= h
             IN  <<m>> \o HtmlMatches(s, title, m + Len(title))

----------------------------------------------------------------------------
(* link_keywords_in_html: the callback replace_if_valid (lines 83-109).    *)

\* The five CJK characters U+67E5 U+770B U+95DC U+9375 U+5B57 of the title
\* attribute, each one character of the text, then ": ".
TitlePrefix == <<"u67E5", "u770B", "u95DC", "u9375", "u5B57", ":", " ">>

AnchorOpenHref == <<"<", "a", " ", "h", "r", "e", "f", "=", "\"">>

AnchorClassTitle ==
    <<"\"", " ", "c", "l", "a", "s", "s", "=", "\"", "k", "e", "y", "w", "o",
      "r", "d", "-", "l", "i", "n", "k", "\"", " ", "t", "i", "t", "l", "e",
      "=", "\"">> \o TitlePrefix

AnchorClose == <<"<", "/", "a", ">">>

\* Mutant of HtmlAnchor: the body is the candidate's title, not the match.
HtmlAnchorTitleBody(target_url, title, group0) ==
    AnchorOpenHref \o target_url \o AnchorClassTitle \o title
        \o <<"\"", ">">> \o title \o AnchorClose

\* f'<a href="{target_url}" class="keyword-link" title="...: {title}">
\*   {match.group(0)}</a>' (lines 106-109)
HtmlAnchor(target_url, title, group0) ==
    AnchorOpenHref \o target_url \o AnchorClassTitle \o title
        \o <<"\"", ">">> \o group0 \o AnchorClose

\* Whether replace_if_valid returns the anchor for the match of length n at
\* index i of match.string = s (lines 84-104).
HtmlValid(s, i, n) ==
    LET before_text == Take(s, i - 1)
        after_text == Drop(s, i + n - 1)
        open_tags == Count(before_text, "<")
        close_tags == Count(before_text, ">")
        next_open == Find(after_text, <<"<">>)
        next_close == Find(after_text, <<">">>)
        last_a_open == RFind(before_text, <<"<", "a", " ">>)
        last_a_close == RFind(before_text, AnchorClose)
    IN  /\ ~(open_tags > close_tags)
        /\ ~(/\ after_text # <<>>
             /\ next_close # -1
             /\ (next_open = -1 \/ next_close < next_open))
        /\ ~(last_a_open > last_a_close)

replace_if_valid(s, i, title, target_url) ==
    LET group0 == SubSeq(s, i, i + Len(title) - 1)
    IN  IF HtmlValid(s, i, Len(title))
        THEN HtmlAnchor(target_url, title, group0)
        ELSE group0

\* Mutant of HtmlRebuild: the callback inspects the text in which the
\* earlier matches of the pass are already replaced.
RECURSIVE HtmlRebuildProgressive(_, _, _, _, _)
HtmlRebuildProgressive(s, pos, ms, title, target_url) ==
    IF ms = <<>> THEN s
    ELSE LET rep == replace_if_valid(s, ms[1], title, target_url)
             shift == Len(rep) - Len(title)
         IN  HtmlRebuildProgressive(
                 Take(s, ms[1] - 1) \o rep \o Drop(s, ms[1] + Len(title) - 1),
                 pos, [k \in 1..Len(ms) - 1 |-> ms[k + 1] + shift],
                 title, target_url)

\* re.sub(pattern, replace_if_valid, result, flags=re.IGNORECASE) (line 111):
\* the text between the matches is copied, each match is replaced by what the
\* callback returns for it.
RECURSIVE HtmlRebuild(_, _, _, _, _)
HtmlRebuild(s, pos, ms, title, target_url) ==
    IF ms = <<>> THEN Drop(s, pos - 1)
    ELSE SubSeq(s, pos, ms[1] - 1)
            \o replace_if_valid(s, ms[1], title, target_url)
            \o HtmlRebuild(s, ms[1] + Len(title), Tail(ms), title, target_url)

HtmlSub(title, target_url, s) ==
    HtmlRebuild(s, 1, HtmlMatches(s, title, 1), title, target_url)

\* History: the links one pass inserts, in document order.
HtmlInserted(title, target_url, s, pass) ==
    LET ok(i) == HtmlValid(s, i, Len(title))
        acc == SelectSeq(HtmlMatches(s, title, 1), ok)
    IN  [k \in 1..Len(acc) |->
            [title |-> title, url |-> target_url, at |-> acc[k], pass |-> pass,
             text |-> SubSeq(s, acc[k], acc[k] + Len(title) - 1)]]

----------------------------------------------------------------------------
(* link_keywords_in_markdown: the pattern and replacement (lines 204-214). *)

\* (?<!\[)(?<!!)(title)(?!\])(?!\() at index i.
MdMatchAt(s, i, title) ==
    /\ MatchAt(s, i, title)
    /\ (i > 1 => s[i - 1] \notin {"[", "!"})
    /\ (i + Len(title) <= Len(s) => s[i + Len(title)] \notin {"]", "("})

RECURSIVE MdMatches(_, _, _)
MdMatches(s, title, i) ==
    LET hits == {j \in i..Len(s) - Len(title) + 1 : MdMatchAt(s, j, title)}
    IN  IF hits = {} THEN <<>>
        ELSE LET m == CHOOSE j \in hits : \A h \in hits : j <= h
             IN  <<m>> \o MdMatches(s, title, m + Len(title))

\* replacement = f'[{title}]({target_url} "...: {title}")' (line 213).
MdReplacement(title, target_url) ==
    <<"[">> \o title \o <<"]", "(">> \o target_url \o <<" ", "\"">>
        \o TitlePrefix \o title \o <<"\"", ")">>

\* re.sub takes a string replacement as a template: a backslash and the
\* character after it are an escape.  Over the characters of the model: "\1"
\* is group 1 of the match; "\2" names a group the pattern does not have;
\* "\a" and "\b" are the control characters U+0007 and U+0008; "\\" is one
\* backslash; any other ASCII letter is a bad escape; every other character
\* keeps its backslash.  A bad escape or a bad group makes re.sub raise
\* re.error before it looks for a match.
IsAsciiLetter(c) == c \in {"a", "b", "c", "A", "B", "C"}

BadEscape(c) == c = "2" \/ (IsAsciiLetter(c) /\ c \notin {"a", "b"})

RECURSIVE TemplateError(_)
TemplateError(t) ==
    IF t = <<>> THEN FALSE
    ELSE IF t[1] # "\\" THEN TemplateError(Tail(t))
    ELSE IF Len(t) = 1 THEN TRUE
    ELSE BadEscape(t[2]) \/ TemplateError(Drop(t, 2))

RECURSIVE ExpandTemplate(_, _)
ExpandTemplate(t, group1) ==
    IF t = <<>> THEN <<>>
    ELSE IF t[1] # "\\" \/ Len(t) = 1
         THEN <<t[1]>> \o ExpandTemplate(Tail(t), group1)
    ELSE (CASE t[2] = "1" -> group1
            [] t[2] = "a" -> <<"u0007">>
            [] t[2] = "b" -> <<"u0008">>
            [] t[2] = "\\" -> <<"\\">>
            [] OTHER -> <<t[1], t[2]>>)
         \o ExpandTemplate(Drop(t, 2), group1)

RECURSIVE MdRebuild(_, _, _, _, _)
MdRebuild(s, pos, ms, title, target_url) ==
    IF ms = <<>> THEN Drop(s, pos - 1)
    ELSE SubSeq(s, pos, ms[1] - 1)
            \o ExpandTemplate(MdReplacement(title, target_url),
                              SubSeq(s, ms[1], ms[1] + Len(title) - 1))
            \o MdRebuild(s, ms[1] + Len(title), Tail(ms), title, target_url)

\* re.sub(pattern, replacement, result, count=0, flags=re.IGNORECASE)
MdSub(title, target_url, s) ==
    MdRebuild(s, 1, MdMatches(s, title, 1), title, target_url)

MdInserted(title, target_url, s, pass) ==
    LET acc == MdMatches(s, title, 1)
    IN  [k \in 1..Len(acc) |->
            [title |-> title, url |-> target_url, at |-> acc[k], pass |-> pass,
             text |-> SubSeq(s, acc[k], acc[k] + Len(title) - 1)]]

----------------------------------------------------------------------------
(* The inputs of the model: documents and stores.                          *)

\* Documents are concatenations of at most MaxFrags fragments.
Docs(frags) ==
    UNION {{Concat(fs) : fs \in [1..k -> frags]} : k \in 0..MaxFrags}

HtmlFrags ==
    { <<"a">>, <<"b">>, <<"<">>, <<">">>,
      <<"<", "a", " ">>, <<"<", "a", ">">>, <<"<", "/", "a", ">">> }

MdFrags ==
    { <<"b">>, <<"B">>, <<"c">>, <<"(">>, <<")">>,
      <<"[", "c">>, <<"!", "[", "c">>, <<"c", "]", "(", "c", ")">> }

\* Titles a keyword of the model may have, and titles an alias may have.
HtmlKeywordTitles == << <<"a">>, <<"b">>, <<"<", "b">> >>
HtmlAliasTitles == { <<"B">>, <<"<">> }

\* Plain-text documents and titles, one title inside another, for the HTML
\* operation on text without markup.
TextFrags == { <<"a">>, <<"b">>, <<"B">>, <<"c">> }

\* The documents of the calls whose catalog is what matters.
ConcFrags == { <<"a">>, <<"b">> }

TextKeywordTitles == << <<"a">>, <<"a", "b">>, <<"b">> >>
TextAliasTitles == { <<"B">>, <<"a", "b">> }

MdKeywordTitles == << <<"b">>, <<"b", "c">>, <<"b", ")">> >>
MdAliasTitles == { <<"b">>, <<"c">>, <<"\\", "c">> }

\* learning_keywords: rows with ids 1..k, titles unique, slugs unique; the
\* slug of a keyword is slugify(title) (models.py set_slugifier).
KeywordTables(pool) ==
    UNION {
      { [i \in 1..k |-> [id |-> i, title |-> pool[f[i]],
                         slug |-> slugify(pool[f[i]]), is_public |-> pub[i],
                         category_id |-> 1]]
        : <<f, pub>> \in
            {fp \in [1..k -> 1..Len(pool)] \X [1..k -> BOOLEAN] :
               /\ \A i, j \in 1..k : i < j => fp[1][i] < fp[1][j]
               /\ \A i, j \in 1..k :
                    i # j => slugify(pool[fp[1][i]]) # slugify(pool[fp[1][j]])} }
      : k \in 0..MaxKeywords }

\* keyword_aliases: each row belongs to a keyword; its slug is generated so
\* that no keyword and no earlier alias has it.
RECURSIVE AliasRowsOf(_, _, _)
AliasRowsOf(kws, spec, rows) ==
    IF Len(rows) = Len(spec) THEN rows
    ELSE LET n == Len(rows) + 1
             used == {kws[i].slug : i \in 1..Len(kws)}
                        \cup {rows[i].slug : i \in 1..Len(rows)}
         IN  AliasRowsOf(kws, spec,
                 Append(rows, [id |-> n, keyword_id |-> spec[n][2],
                               title |-> spec[n][1],
                               slug |-> generate_unique_alias_slug(spec[n][1], used)]))

AliasTablesUpTo(kws, pool, max) ==
    UNION { { AliasRowsOf(kws, spec, <<>>)
              : spec \in [1..m -> pool \X (1..Len(kws))] }
            : m \in 0..max }

AliasTables(kws, pool) == AliasTablesUpTo(kws, pool, MaxAliases)

----------------------------------------------------------------------------
(* The sitemap (src/app/sitemap.py).  The XML text is kept as the set of   *)
(* its <loc> values.                                                       *)

\* url_for(..., _external=True): the origin of the site, then the path.
ExternalUrl(path) == <<"http://host">> \o path

\* _build_sitemap_xml (lines 110-177): the homepage, every category, every
\* keyword and every alias of the store the query sees.
build_sitemap_xml(cats, kws, als) ==
    {ExternalUrl(<<"/">>)}
    \cup {ExternalUrl(<<"/">> \o c.slug) : c \in Range(cats)}
    \cup {ExternalUrl(url_for(slugify(category_name), kw.slug)) : kw \in Range(kws)}
    \cup {ExternalUrl(url_for(slugify(category_name), al.slug)) : al \in Range(als)}

NoRow ==
    [id |-> 0, title |-> <<>>, slug |-> <<>>, is_public |-> FALSE,
     category_id |-> 0]

NoCacheFile == [exists |-> FALSE, text |-> {}, fresh |-> FALSE]

IdleSession(n) == [pc |-> "idle", op |-> "none", row |-> NoRow, commits |-> n]

IdleGen == [pc |-> "idle", force |-> FALSE, xml |-> {}, seen |-> {}]

\* No admin request and no sitemap request is in progress, no cache file.
InitIdleSitemap ==
    /\ cache_file = NoCacheFile
    /\ session = IdleSession(0)
    /\ gen = IdleGen

\* invalidate_cache (lines 65-73): the cache file is unlinked if it exists.
invalidate_cache(file) == IF file.exists THEN NoCacheFile ELSE file

----------------------------------------------------------------------------
(* The state machine of one call, and of a second call on its output.      *)

InitStore(cats, kwpool, alpool) ==
    /\ categories \in cats
    /\ keywords \in KeywordTables(kwpool)
    /\ aliases \in AliasTables(keywords, alpool)
    /\ current_keyword_id \in 0..Len(keywords)

InitCall ==
    /\ sorted_titles = <<>>
    /\ idx = 1
    /\ result = <<>>
    /\ pc = "start"
    /\ calls = 1
    /\ inserted = <<>>
    /\ keyword_cache = <<>>
    /\ cache_timestamp = "None"
    /\ fetched = <<>>
    /\ snapshots = {}

InitHtml ==
    /\ content \in Docs(HtmlFrags)
    /\ InitStore(PublicCategoryTables, HtmlKeywordTitles, HtmlAliasTitles)
    /\ InitCall
    /\ InitIdleSitemap

InitMd ==
    /\ content \in Docs(MdFrags)
    /\ InitStore(PublicCategoryTables, MdKeywordTitles, MdAliasTitles)
    /\ InitCall
    /\ InitIdleSitemap

\* A call of link_keywords_in_html on a plain-text document; the category of
\* the keywords is public or hidden.
InitText ==
    /\ content \in Docs(TextFrags)
    /\ InitStore(CategoryTables, TextKeywordTitles, TextAliasTitles)
    /\ InitCall
    /\ InitIdleSitemap

\* Lines 34-76 (and 157-199): the two queries, link_targets, the sort.
QueryCatalog ==
    /\ pc = "start"
    /\ \E kw_rows \in OrderByTitleDesc(KeywordQuery(keywords, current_keyword_id)),
          alias_rows \in OrderByTitleDesc(
                            AliasQuery(keywords, aliases, current_keyword_id)) :
          sorted_titles' = SortedByLen(LinkTargets(kw_rows, alias_rows))
    /\ result' = content
    /\ idx' = 1
    /\ pc' = "loop"
    /\ UNCHANGED <<storeVars, sitemapVars, instanceVars, queryVars,
                 content, current_keyword_id, calls, inserted>>

\* One iteration of the loop of lines 78-111.
HtmlPass ==
    /\ pc = "loop"
    /\ idx <= Len(sorted_titles)
    /\ LET title == sorted_titles[idx][1]
           target_url == sorted_titles[idx][2]
       IN  /\ result' = HtmlSub(title, target_url, result)
           /\ inserted' = inserted \o HtmlInserted(title, target_url, result, idx)
    /\ idx' = idx + 1
    /\ UNCHANGED <<storeVars, sitemapVars, instanceVars, queryVars,
                 content, current_keyword_id, sorted_titles,
                   pc, calls>>

\* One iteration of the loop of lines 201-214; an exception of re.sub leaves
\* the call without a return value.
MdPass ==
    /\ pc = "loop"
    /\ idx <= Len(sorted_titles)
    /\ LET title == sorted_titles[idx][1]
           target_url == sorted_titles[idx][2]
       IN  IF TemplateError(MdReplacement(title, target_url))
           THEN /\ pc' = "raised"
                /\ UNCHANGED <<result, inserted, idx>>
           ELSE /\ result' = MdSub(title, target_url, result)
                /\ inserted' =
                      inserted \o MdInserted(title, target_url, result, idx)
                /\ idx' = idx + 1
                /\ pc' = pc
    /\ UNCHANGED <<storeVars, sitemapVars, instanceVars, queryVars,
                 content, current_keyword_id, sorted_titles, calls>>

\* Mutant of Return: the call memoises its plan in the shared instance.
ReturnMemoising ==
    /\ pc = "loop"
    /\ idx > Len(sorted_titles)
    /\ pc' = "done"
    /\ keyword_cache' = sorted_titles
    /\ cache_timestamp' = "now"
    /\ UNCHANGED <<storeVars, sitemapVars, queryVars, content,
                   current_keyword_id, sorted_titles, idx, result, calls,
                   inserted>>

\* return result (lines 113 and 216).
Return ==
    /\ pc = "loop"
    /\ idx > Len(sorted_titles)
    /\ pc' = "done"
    /\ UNCHANGED <<storeVars, sitemapVars, instanceVars, queryVars,
                 content, current_keyword_id, sorted_titles,
                   idx, result, calls, inserted>>

\* The caller hands the returned text to the same operation again, with the
\* same store and the same excluded id.
CallAgain ==
    /\ pc = "done"
    /\ calls = 1
    /\ content' = result
    /\ calls' = 2
    /\ pc' = "start"
    /\ sorted_titles' = <<>>
    /\ idx' = 1
    /\ inserted' = <<>>
    /\ UNCHANGED <<storeVars, sitemapVars, instanceVars, queryVars,
                 current_keyword_id, result>>

NextHtml == QueryCatalog \/ HtmlPass \/ Return \/ CallAgain

NextMd == QueryCatalog \/ MdPass \/ Return \/ CallAgain

NextText == QueryCatalog \/ HtmlPass \/ Return

SpecHtml == InitHtml /\ [][NextHtml]_vars

SpecText == InitText /\ [][NextText]_vars

SpecMd == InitMd /\ [][NextMd]_vars

\* A call of link_keywords_in_html against a catalog with titles that are
\* blank, padded with spaces, or equal to one another ignoring case: rows as
\* the import (admin/routes.py:2985-3020) stores them, without validation.
PlanKeywordTitles == << <<" ">>, <<"a">>, <<" ", "b">> >>
PlanAliasTitles == { <<" ">>, <<"B">>, <<"b">>, <<"a", "b">> }

InitPlan ==
    /\ content \in Docs(ConcFrags)
    /\ categories \in PublicCategoryTables
    /\ keywords \in KeywordTables(PlanKeywordTitles)
    /\ aliases \in AliasTablesUpTo(keywords, PlanAliasTitles, MaxPlanAliases)
    /\ current_keyword_id \in 0..Len(keywords)
    /\ InitCall
    /\ InitIdleSitemap

NextPlan == QueryCatalog \/ HtmlPass \/ Return

SpecPlan == InitPlan /\ [][NextPlan]_vars

----------------------------------------------------------------------------
(* The sitemap cache under admin requests and sitemap requests.  Requests  *)
(* are served by separate threads or worker processes, each with its own   *)
(* database session: a session sees the rows that are committed.           *)

\* The store as one value: what a query of a new session returns.
Store == <<categories, keywords, aliases>>

InitSitemap ==
    /\ InitStore(PublicCategoryTables, TextKeywordTitles, {})
    /\ aliases = <<>>
    /\ content = <<>>
    /\ current_keyword_id = 0
    /\ InitCall
    /\ InitIdleSitemap

NextId == IF keywords = <<>> THEN 1 ELSE keywords[Len(keywords)].id + 1

\* admin store_keyword up to db.session.flush() (admin/routes.py:364-387):
\* the INSERT is sent inside the open transaction and the after_insert
\* listener (sitemap.py:47, 61-63) invalidates the cache.
StoreKeywordFlush ==
    /\ session.pc = "idle"
    /\ session.commits < MaxCommits
    /\ Len(keywords) < MaxKeywords
    /\ \E t \in Range(TextKeywordTitles), pub \in BOOLEAN :
          /\ \A kw \in Range(keywords) : kw.title # t /\ kw.slug # slugify(t)
          /\ session' = [pc |-> "flushed", op |-> "insert",
                         row |-> [id |-> NextId, title |-> t,
                                  slug |-> slugify(t), is_public |-> pub,
                                  category_id |-> 1],
                         commits |-> session.commits]
    /\ cache_file' = invalidate_cache(cache_file)
    /\ UNCHANGED <<storeVars, linkVars, gen>>

\* admin delete_keyword up to the flush inside db.session.commit()
\* (admin/routes.py:657-665): the DELETE is sent inside the open transaction
\* and the after_delete listener (sitemap.py:49) invalidates the cache.
DeleteKeywordFlush ==
    /\ session.pc = "idle"
    /\ session.commits < MaxCommits
    /\ \E kw \in Range(keywords) :
          session' = [pc |-> "flushed", op |-> "delete", row |-> kw,
                      commits |-> session.commits]
    /\ cache_file' = invalidate_cache(cache_file)
    /\ UNCHANGED <<storeVars, linkVars, gen>>

\* The COMMIT that ends db.session.commit() (admin/routes.py:407, 665): the
\* change becomes visible to the other sessions.
Commit ==
    /\ session.pc = "flushed"
    /\ keywords' =
          IF session.op = "insert" THEN Append(keywords, session.row)
          ELSE SelectSeq(keywords, LAMBDA kw : kw.id # session.row.id)
    /\ session' = IdleSession(session.commits + 1)
    /\ gen' = IF gen.pc \in {"check", "build", "save"}
              THEN [gen EXCEPT !.seen = @ \cup {<<categories, keywords', aliases>>}]
              ELSE gen
    /\ UNCHANGED <<categories, aliases, linkVars, cache_file>>

\* A request calls generate_sitemap(force) (sitemap.py:75; main/routes.py:398
\* without force, admin/routes.py:1578 with force).
GenerateSitemap ==
    /\ gen.pc \in {"idle", "returned"}
    /\ \E force \in BOOLEAN :
          gen' = [pc |-> "check", force |-> force, xml |-> {}, seen |-> {Store}]
    /\ UNCHANGED <<storeVars, linkVars, cache_file, session>>

\* Lines 86-94: a cache file that exists and is younger than an hour is
\* returned unless force is set.
CheckCache ==
    /\ gen.pc = "check"
    /\ gen' = IF ~gen.force /\ cache_file.exists /\ cache_file.fresh
              THEN [gen EXCEPT !.pc = "returned", !.xml = cache_file.text]
              ELSE [gen EXCEPT !.pc = "build"]
    /\ UNCHANGED <<storeVars, linkVars, cache_file, session>>

\* Line 97: xml_content = self._build_sitemap_xml().
BuildXml ==
    /\ gen.pc = "build"
    /\ gen' = [gen EXCEPT !.pc = "save",
                          !.xml = build_sitemap_xml(categories, keywords, aliases)]
    /\ UNCHANGED <<storeVars, linkVars, cache_file, session>>

\* Lines 100-108: the text is written to the cache file and returned.
SaveCache ==
    /\ gen.pc = "save"
    /\ cache_file' = [exists |-> TRUE, text |-> gen.xml, fresh |-> TRUE]
    /\ gen' = [gen EXCEPT !.pc = "returned"]
    /\ UNCHANGED <<storeVars, linkVars, session>>

\* An hour passes: cache_age reaches 3600 (lines 87-89).
HourPasses ==
    /\ cache_file.exists
    /\ cache_file.fresh
    /\ cache_file' = [cache_file EXCEPT !.fresh = FALSE]
    /\ UNCHANGED <<storeVars, linkVars, session, gen>>

NextSitemap ==
    \/ StoreKeywordFlush
    \/ DeleteKeywordFlush
    \/ Commit
    \/ GenerateSitemap
    \/ CheckCache
    \/ BuildXml
    \/ SaveCache
    \/ HourPasses

SpecSitemap == InitSitemap /\ [][NextSitemap]_vars

----------------------------------------------------------------------------
(* A call of link_keywords_in_html while admin requests commit changes of  *)
(* the catalog.  The two SELECTs of the call (lines 38 and 43) are         *)
(* separate statements; under SQLite, the default database of the          *)
(* application (config.py), and under READ COMMITTED each statement sees   *)
(* the rows that are committed when it runs.                               *)

InitConcurrent ==
    /\ content \in Docs(ConcFrags)
    /\ InitStore(PublicCategoryTables, TextKeywordTitles, TextAliasTitles)
    /\ InitCall
    /\ InitIdleSitemap

\* Lines 34-38: the SELECT of the keywords.
QueryKeywords ==
    /\ pc = "start"
    /\ fetched' \in OrderByTitleDesc(KeywordQuery(keywords, current_keyword_id))
    /\ snapshots' = {Store}
    /\ pc' = "aliases"
    /\ UNCHANGED <<storeVars, sitemapVars, instanceVars, content,
                   current_keyword_id, sorted_titles, idx, result, calls,
                   inserted>>

\* Lines 40-76: the SELECT of the aliases, link_targets, the sort.
QueryAliases ==
    /\ pc = "aliases"
    /\ \E alias_rows \in OrderByTitleDesc(
                            AliasQuery(keywords, aliases, current_keyword_id)) :
          sorted_titles' = SortedByLen(LinkTargets(fetched, alias_rows))
    /\ result' = content
    /\ idx' = 1
    /\ pc' = "loop"
    /\ UNCHANGED <<storeVars, sitemapVars, instanceVars, queryVars, content,
                   current_keyword_id, calls, inserted>>

\* admin toggle_keyword_visibility (admin/routes.py:1612-1631): is_public of
\* one keyword is set and committed; the UPDATE of a changed row fires the
\* after_update listener (sitemap.py:48).
ToggleKeywordVisibility ==
    /\ session.pc = "idle"
    /\ session.commits < MaxCommits
    /\ \E i \in 1..Len(keywords), is_public \in BOOLEAN :
          /\ keywords' = [keywords EXCEPT ![i].is_public = is_public]
          /\ cache_file' = IF keywords[i].is_public # is_public
                            THEN invalidate_cache(cache_file)
                            ELSE cache_file
    /\ session' = IdleSession(session.commits + 1)
    /\ snapshots' = IF pc \in {"aliases", "loop"}
                    THEN snapshots \cup {<<categories, keywords', aliases>>}
                    ELSE snapshots
    /\ UNCHANGED <<categories, aliases, instanceVars, content,
                   current_keyword_id, sorted_titles, idx, result, pc, calls,
                   inserted, fetched, gen>>

NextConcurrent ==
    \/ QueryKeywords
    \/ QueryAliases
    \/ ToggleKeywordVisibility
    \/ HtmlPass
    \/ Return

SpecConcurrent == InitConcurrent /\ [][NextConcurrent]_vars

\* The loop of lines 76-113 from candidate k on: the text that is returned.
RECURSIVE HtmlRun(_, _, _)
HtmlRun(titles, k, text) ==
    IF k > Len(titles) THEN text
    ELSE HtmlRun(titles, k + 1, HtmlSub(titles[k][1], titles[k][2], text))

\* link_keywords_in_html(doc, current) run alone against the store st (lines
\* 21-113): one text for each order the two queries may return.
HtmlOutputs(doc, st, current) ==
    {HtmlRun(SortedByLen(LinkTargets(kw_rows, alias_rows)), 1, doc) :
        <<kw_rows, alias_rows>> \in
            OrderByTitleDesc(KeywordQuery(st[2], current))
            \X OrderByTitleDesc(AliasQuery(st[2], st[3], current))}

----------------------------------------------------------------------------
(* Vocabulary of the properties.                                           *)

Done == pc = "done"

Inserted == Range(inserted)

Contains(s, sub) == Find(s, sub) # -1

\* An anchor opening tag starts at index i: "<a" or "<A" followed by a space
\* or by ">".  An anchor closing tag starts at i: "</a>" or "</A>".
AnchorOpensAt(s, i) ==
    /\ i + 2 <= Len(s)
    /\ s[i] = "<"
    /\ s[i + 1] \in {"a", "A"}
    /\ s[i + 2] \in {" ", ">"}

AnchorClosesAt(s, i) ==
    /\ i + 3 <= Len(s)
    /\ s[i] = "<"
    /\ s[i + 1] = "/"
    /\ s[i + 2] \in {"a", "A"}
    /\ s[i + 3] = ">"

\* Some anchor opens while an earlier anchor has not been closed.
HasNestedAnchor(s) ==
    \E i, j \in 1..Len(s) :
        /\ i < j
        /\ AnchorOpensAt(s, i)
        /\ AnchorOpensAt(s, j)
        /\ \A k \in i..j : ~AnchorClosesAt(s, k)

\* Index p of s lies between a "<" and the first ">" after it.
InsideTag(s, p) ==
    \E i \in 1..(p - 1), j \in (p + 1)..Len(s) :
        /\ s[i] = "<"
        /\ s[j] = ">"
        /\ \A k \in (i + 1)..(j - 1) : s[k] # ">"

----------------------------------------------------------------------------
(* C1: HTML idempotence.  When link_keywords_in_html is applied to its own *)
(* output, with the same store and the same excluded id, it returns that   *)
(* output unchanged.                                                       *)
HtmlIdempotent == (calls = 2 /\ Done) => result = content

(* C3: no nested anchors.  If the input holds no anchor inside another     *)
(* anchor, neither does the output of link_keywords_in_html, whatever the  *)
(* spelling of the anchors of the input.                                   *)
NoNestedAnchors ==
    (Done /\ ~HasNestedAnchor(content)) => ~HasNestedAnchor(result)

(* C4: tag safety.  link_keywords_in_html inserts no link at an occurrence *)
(* of the input whose first or last character lies between a "<" and its   *)
(* closing ">".  Stated for the occurrences the first pass links (it works *)
(* on the input itself) whose text holds no angle bracket of its own.      *)
TagSafety ==
    \A r \in Inserted :
        (r.pass = 1 /\ ~Contains(r.text, <<"<">>) /\ ~Contains(r.text, <<">">>))
        => /\ ~InsideTag(content, r.at)
           /\ ~InsideTag(content, r.at + Len(r.text) - 1)

(* C5: longest-match precedence.  When an occurrence of candidate A has    *)
(* been linked and the text of another candidate B is a substring of A's   *)
(* text, the returned document holds A's link as one unit: the anchor to   *)
(* A's URL around the whole occurrence, with no link to B inside it.       *)
LongestMatchPrecedence ==
    Done =>
        \A r \in Inserted :
            (\E k \in 1..Len(sorted_titles) :
                /\ sorted_titles[k][1] # r.title
                /\ Contains(Lower(r.title), Lower(sorted_titles[k][1])))
            => Contains(result, HtmlAnchor(r.url, r.title, r.text))

\* The brackets open ... close of s are balanced: no prefix closes more than
\* it opens, and the whole text closes all it opens.
Balanced(s, open, close) ==
    /\ \A k \in 1..Len(s) : Count(Take(s, k), close) <= Count(Take(s, k), open)
    /\ Count(s, open) = Count(s, close)

\* Index p of s lies in the label or in the target of a link [label](target)
\* or of an image ![alt](src).
InsideMdLink(s, p) ==
    \E i, j, k \in 1..Len(s) :
        /\ i < j /\ j + 1 < k
        /\ s[i] = "[" /\ s[j] = "]" /\ s[j + 1] = "(" /\ s[k] = ")"
        /\ \A m \in (i + 1)..(j - 1) : s[m] \notin {"[", "]"}
        /\ \A m \in (j + 2)..(k - 1) : s[m] # ")"
        /\ (i < p /\ p < j) \/ (j + 1 < p /\ p < k)

\* The text left when every tag, from a "<" to the next ">", is removed.
RECURSIVE StripTags(_)
StripTags(s) ==
    IF s = <<>> THEN <<>>
    ELSE IF s[1] = "<" /\ Find(s, <<">">>) # -1
         THEN StripTags(Drop(s, Find(s, <<">">>) + 1))
    ELSE <<s[1]>> \o StripTags(Tail(s))

PlainText(s) == ~Contains(s, <<"<">>) /\ ~Contains(s, <<">">>)

\* The rows a call with current_keyword_id = E must not take candidates from.
OwnTitles ==
    {Strip(keywords[i].title) :
        i \in {n \in 1..Len(keywords) : keywords[n].id = current_keyword_id}}
    \cup {Strip(aliases[i].title) :
        i \in {n \in 1..Len(aliases) : aliases[n].keyword_id = current_keyword_id}}

\* <<title, url>> of every public keyword other than E and of every alias of
\* a public keyword other than E.
ForeignTargets ==
    {<<Strip(kw.title), url_for(slugify(category_name), kw.slug)>> :
        kw \in {k \in Range(keywords) : k.is_public /\ k.id # current_keyword_id}}
    \cup
    {<<Strip(al.title), url_for(slugify(category_name), al.slug)>> :
        al \in {a \in Range(aliases) :
                  /\ a.keyword_id # current_keyword_id
                  /\ \E k \in Range(keywords) : k.id = a.keyword_id /\ k.is_public}}

----------------------------------------------------------------------------
(* C2: Markdown idempotence.  When link_keywords_in_markdown is applied to *)
(* its own output it inserts nothing and returns that output unchanged:    *)
(* label, URL and quoted title of the links of the first run stay as they  *)
(* are.                                                                    *)
MdIdempotent == (calls = 2 /\ Done) => (inserted = <<>> /\ result = content)

(* C6: consumed spans.  Once link_keywords_in_markdown has replaced an     *)
(* occurrence by [text](url "title"), no later candidate matches inside    *)
(* that replacement, so the replacement is still in the text, whole, after *)
(* every later pass.                                                       *)
MdConsumedSpans ==
    \A r \in Inserted : Contains(result, MdReplacement(r.title, r.url))

(* C7: no broken Markdown link syntax.  If "[" "]" and "(" ")" are         *)
(* balanced in the input of link_keywords_in_markdown, they are balanced   *)
(* in its output.                                                          *)
MdBalanced ==
    (Done /\ Balanced(content, "[", "]") /\ Balanced(content, "(", ")"))
    => (Balanced(result, "[", "]") /\ Balanced(result, "(", ")"))

(* C8: existing Markdown links are left alone.  link_keywords_in_markdown  *)
(* wraps no occurrence of the input that lies in the label or the target   *)
(* of a link [label](target) or of an image ![alt](src).                   *)
MdLinksLeftAlone ==
    \A r \in Inserted :
        r.pass = 1 =>
            /\ ~InsideMdLink(content, r.at)
            /\ ~InsideMdLink(content, r.at + Len(r.text) - 1)

(* C9 as claimed: no self-link.  In a call with current_keyword_id = E no  *)
(* occurrence of E's title or of an alias of E is wrapped in a link: no    *)
(* inserted link has such an occurrence as its body.                       *)
NoOwnTitleWrapped ==
    \A r \in Inserted :
        (current_keyword_id # 0 /\ keywords[current_keyword_id].is_public)
        => r.text \notin OwnTitles

(* C9 as amended: in a call with current_keyword_id = E no candidate comes *)
(* from E's row or from the row of an alias of E: every inserted link      *)
(* carries the title and the URL of a public keyword other than E or of an *)
(* alias of a public keyword other than E.                                 *)
NoSelfLink ==
    \A r \in Inserted :
        current_keyword_id # 0 => <<r.title, r.url>> \in ForeignTargets

\* A finished call for a public keyword E whose title occurs in the document,
\* in which a link to another entry was inserted and E's title was not wrapped.
NoSelfLinkWitness ==
    /\ Done
    /\ current_keyword_id # 0
    /\ keywords[current_keyword_id].is_public
    /\ Contains(content, keywords[current_keyword_id].title)
    /\ Inserted # {}
    /\ \A r \in Inserted : ~Contains(r.text, keywords[current_keyword_id].title)

(* C10: case-insensitive matching, case-preserving output.  For a plain    *)
(* text document, link_keywords_in_html links a candidate that occurs in   *)
(* it in any letter case, and the text left when the tags of the output    *)
(* are removed is the document itself: the body of every inserted anchor   *)
(* is the matched text in the document's casing.                           *)
CasePreserving ==
    (Done /\ PlainText(content)) =>
        /\ StripTags(result) = content
        /\ (\E k \in 1..Len(sorted_titles) :
               Contains(Lower(content), Lower(sorted_titles[k][1])))
           => result # content

\* A finished call on a plain text document that linked an occurrence whose
\* letter case differs from the candidate's.
CasePreservingWitness ==
    /\ Done
    /\ PlainText(content)
    /\ \E r \in Inserted : r.text # r.title /\ Lower(r.text) = Lower(r.title)

----------------------------------------------------------------------------
(* Markup of the inserted links.                                           *)

\* The label re.sub writes between "[" and "]" for a match whose text is
\* group1: the title part of the template, expanded.
MdLabel(title, group1) == ExpandTemplate(title, group1)

\* What follows the label in the replacement: "](" url, the quoted title, ")".
MdLinkTail(title, target_url) ==
    <<"]", "(">> \o target_url \o <<" ", "\"">> \o TitlePrefix \o title
        \o <<"\"", ")">>

\* s without the markup inserted for <<title, target_url>>: of every
\* "[" label "](url "title")" only the label stays.
RECURSIVE MdUnlink(_, _, _)
MdUnlink(s, title, target_url) ==
    IF s = <<>> THEN <<>>
    ELSE IF s[1] = "[" /\ IsAt(s, MdLinkTail(title, target_url), Len(title) + 2)
         THEN SubSeq(s, 2, Len(title) + 1)
                 \o MdUnlink(Drop(s, Len(title) + 1
                                        + Len(MdLinkTail(title, target_url))),
                             title, target_url)
    ELSE <<s[1]>> \o MdUnlink(Tail(s), title, target_url)

\* Character k of s is preceded by a backslash.
EscapedAt(s, k) == k > 1 /\ s[k - 1] = "\\"

\* The opening tag of the anchor inserted for r.
HtmlOpeningTag(r) ==
    Take(HtmlAnchor(r.url, r.title, r.text),
         Len(HtmlAnchor(r.url, r.title, r.text)) - Len(r.text) - Len(AnchorClose))

(* C11: case-preserving output in Markdown.  The label of every link that  *)
(* link_keywords_in_markdown inserts is the text of the document that      *)
(* matched, in the document's letter case.                                 *)
MdCasePreserving ==
    \A r \in Inserted : MdLabel(r.title, r.text) = r.text

(* C16: every free occurrence is linked.  After the pass for the first     *)
(* candidate of link_keywords_in_markdown, every occurrence of its text    *)
(* in the document, compared ignoring case, that lies neither in the label *)
(* nor in the target of an existing link has been replaced by a link,      *)
(* whatever characters stand next to it.                                   *)
MdEveryFreeOccurrenceLinked ==
    (calls = 1 /\ idx > 1) =>
        \A i \in 1..Len(content) :
            LET title == sorted_titles[1][1]
            IN  (/\ MatchAt(content, i, title)
                 /\ ~InsideMdLink(content, i)
                 /\ ~InsideMdLink(content, i + Len(title) - 1)
                 /\ \A j \in 1..Len(content) :
                       (j # i /\ MatchAt(content, j, title))
                       => (j + Len(title) <= i \/ i + Len(title) <= j))
                => \E r \in Inserted : r.pass = 1 /\ r.at = i

(* C17: unmatched regions are unchanged.  When the markup that the pass    *)
(* for the first candidate of link_keywords_in_markdown inserted, the "["  *)
(* and the "](url "title")" of each link, is removed from the text after   *)
(* that pass, the input document is left, character for character.         *)
MdFrame ==
    (calls = 1 /\ idx = 2) =>
        MdUnlink(result, sorted_titles[1][1], sorted_titles[1][2]) = content

(* C18: HTML link markup.  The opening tag of every anchor that            *)
(* link_keywords_in_html inserts is one well-formed tag: it holds the six  *)
(* quotes that delimit href, class and title and no other, one "<" and one *)
(* ">", so no raw quote or angle bracket of a title or URL is in it.       *)
HtmlAttributesEscaped ==
    \A r \in Inserted :
        /\ Count(HtmlOpeningTag(r), "\"") = 6
        /\ Count(HtmlOpeningTag(r), "<") = 1
        /\ Count(HtmlOpeningTag(r), ">") = 1

(* C19: Markdown link markup.  In the quoted title of every link that      *)
(* link_keywords_in_markdown inserts, each parenthesis and each quote of   *)
(* the candidate's title is escaped by a backslash, so the link target is  *)
(* closed by the last character of the replacement only.                   *)
MdTitleEscaped ==
    \A r \in Inserted :
        LET quoted == ExpandTemplate(r.title, r.text)
        IN  \A k \in 1..Len(quoted) :
                quoted[k] \in {"\"", "(", ")"} => EscapedAt(quoted, k)

(* C14: empty input and empty catalog are no-ops.  A call with an empty    *)
(* candidate list returns the input document, and a call with an empty     *)
(* document returns the empty document, whatever the catalog: it ends, and *)
(* it ends by returning.                                                   *)
EmptyIsNoOp ==
    /\ Done => /\ sorted_titles = <<>> => result = content
               /\ content = <<>> => result = <<>>
    /\ pc = "raised" => (sorted_titles # <<>> /\ content # <<>>)

(* C15: the engine never raises.  For every document and every catalog of  *)
(* non-empty titles and URLs, a title with a backslash included, no call   *)
(* of a link operation ends with an exception.                             *)
NeverRaises == pc # "raised"

----------------------------------------------------------------------------
(* The catalog and the pages it links to.                                  *)

\* main/routes.py keyword_detail serves the page of a keyword, and of its
\* aliases, when the keyword and its category are both public; otherwise it
\* answers 404.
DetailPageServed(kw) == kw.is_public /\ categories[kw.category_id].is_public

Owner(al) == CHOOSE kw \in Range(keywords) : kw.id = al.keyword_id

KeywordUrl(row) == url_for(slugify(category_name), row.slug)

\* <<title, url>> of the entries and aliases whose page is served, the
\* excluded entry and its aliases left out.
VisibleTargets ==
    {<<Strip(kw.title), KeywordUrl(kw)>> :
        kw \in {k \in Range(keywords) :
                  DetailPageServed(k) /\ k.id # current_keyword_id}}
    \cup
    {<<Strip(al.title), KeywordUrl(al)>> :
        al \in {a \in Range(aliases) :
                  DetailPageServed(Owner(a)) /\ a.keyword_id # current_keyword_id}}

\* The rows the two queries of a call return.
EligibleKeywords == KeywordQuery(keywords, current_keyword_id)
EligibleAliases == AliasQuery(keywords, aliases, current_keyword_id)
EligibleTitles ==
    {Strip(r.title) : r \in EligibleKeywords}
        \cup {Strip(r.title) : r \in EligibleAliases}

\* No two eligible rows have the same title ignoring case.
NoDuplicateTitles ==
    /\ \A r1, r2 \in EligibleKeywords \cup EligibleAliases :
          r1 # r2 => Lower(Strip(r1.title)) # Lower(Strip(r2.title))
    /\ \A k \in EligibleKeywords, a \in EligibleAliases :
          Lower(Strip(k.title)) # Lower(Strip(a.title))

Disjoint(i, n, j, m) == i + n <= j \/ j + m <= i

\* The occurrence of title t at index i of the document overlaps no other
\* occurrence of a title that is at least as long.
FreeOccurrence(t, i) ==
    /\ MatchAt(content, i, t)
    /\ \A u \in EligibleTitles, j \in 1..Len(content) :
          (/\ Len(u) >= Len(t)
           /\ MatchAt(content, j, u)
           /\ <<u, j>> # <<t, i>>)
          => Disjoint(i, Len(t), j, Len(u))

\* The output holds the anchor exactly where index i of the document is.
LinkedAt(anchor, i) ==
    \E p \in 1..Len(result) :
        /\ IsAt(result, anchor, p)
        /\ StripTags(Take(result, p - 1)) = Take(content, i - 1)

OccurrenceText(t, i) == SubSeq(content, i, i + Len(t) - 1)

OnlyVisibleLinked ==
    \A r \in Inserted : <<r.title, r.url>> \in VisibleTargets

----------------------------------------------------------------------------
(* C20: the sitemap follows the store.  A generate_sitemap call without    *)
(* force returns the sitemap of the store as it was committed at some      *)
(* moment of the call: once a change is committed, a call that starts      *)
(* afterwards does not return XML cached from the store before the change, *)
(* and the URL of a newly committed keyword is in its result.              *)
SitemapFollowsStore ==
    (gen.pc = "returned" /\ ~gen.force) =>
        \E st \in gen.seen : gen.xml = build_sitemap_xml(st[1], st[2], st[3])

\* C21: under any interleaving of a link call with catalog updates, the text
\* the call returns is the text the same call returns when it runs alone
\* against one catalog state that existed at some instant during the call.
LinkCallSeesOneCatalog ==
    Done => \E st \in snapshots :
                result \in HtmlOutputs(content, st, current_keyword_id)

\* The rows of keyword_aliases have pairwise different titles, so that ORDER
\* BY title leaves the database no choice.
AliasTitlesDistinct ==
    \A i, j \in 1..Len(aliases) : i # j => aliases[i].title # aliases[j].title

Planned == pc \in {"loop", "done"}

PlanTitles == {sorted_titles[k][1] : k \in 1..Len(sorted_titles)}

Key(row) == Lower(Strip(row.title))

\* Row r is the first of the rows with its key in the order of the query.
FirstOfKey(r, rows) ==
    \A r2 \in rows : Key(r2) = Key(r) => ~TitleGreater(r2.title, r.title)

\* C23: no candidate of the plan is blank; no two candidates are equal
\* ignoring case; every eligible row with a non-blank title is represented by
\* a candidate of its text; the candidate of a text is the first row with that
\* text in catalog order, a keyword before any alias, and carries that row's
\* URL; and every link a pass inserts carries the URL of a candidate, never
\* that of a dropped duplicate.
PlannerDedup ==
    Planned =>
      /\ \A k \in 1..Len(sorted_titles) :
            /\ sorted_titles[k][1] # <<>>
            /\ Strip(sorted_titles[k][1]) = sorted_titles[k][1]
      /\ \A j, k \in 1..Len(sorted_titles) :
            j # k => Lower(sorted_titles[j][1]) # Lower(sorted_titles[k][1])
      /\ \A r \in EligibleKeywords \cup EligibleAliases :
            Strip(r.title) # <<>> => \E t \in PlanTitles : Lower(t) = Key(r)
      /\ \A k \in 1..Len(sorted_titles) :
            LET t == sorted_titles[k]
                from(rows) ==
                    \E r \in rows : /\ Strip(r.title) = t[1]
                                    /\ KeywordUrl(r) = t[2]
                                    /\ FirstOfKey(r, rows)
            IN  IF \E kw \in EligibleKeywords : Key(kw) = Lower(t[1])
                THEN from(EligibleKeywords)
                ELSE from(EligibleAliases)
      /\ \A r \in Inserted :
            \E k \in 1..Len(sorted_titles) : sorted_titles[k] = <<r.title, r.url>>

\* A call has returned with a link whose text a keyword or alias and another
\* alias share ignoring case, while a blank title was among the rows.
PlannerDedupWitness ==
    /\ Done
    /\ \E r \in EligibleKeywords \cup EligibleAliases : Strip(r.title) = <<>>
    /\ \E r1 \in EligibleKeywords \cup EligibleAliases, r2 \in EligibleAliases,
          l \in Inserted :
          /\ r1 # r2
          /\ Key(r1) = Key(r2)
          /\ Lower(l.title) = Key(r1)

PosIn(q, x) == CHOOSE k \in 1..Len(q) : q[k] = x

\* C24: the candidates are processed by descending length of their text, and
\* candidates of the same length keep the order they had after deduplication;
\* no pass of a shorter candidate comes before a pass of a longer one.
PlannerOrder ==
    Planned =>
      /\ \A k \in 1..Len(sorted_titles) - 1 :
            Len(sorted_titles[k][1]) >= Len(sorted_titles[k + 1][1])
      /\ \E kw_rows \in OrderByTitleDesc(EligibleKeywords),
            alias_rows \in OrderByTitleDesc(EligibleAliases) :
            LET l == LinkTargets(kw_rows, alias_rows)
            IN  /\ Len(l) = Len(sorted_titles)
                /\ Range(l) = Range(sorted_titles)
                /\ \A i, j \in 1..Len(l) :
                      (i < j /\ Len(l[i][1]) = Len(l[j][1]))
                      => PosIn(sorted_titles, l[i]) < PosIn(sorted_titles, l[j])
      /\ \A r1, r2 \in Inserted :
            r1.pass < r2.pass => Len(r1.title) >= Len(r2.title)

\* A call has returned after passes for a longer candidate and for two
\* candidates of one length, with links of two passes.
PlannerOrderWitness ==
    /\ Done
    /\ Len(sorted_titles) = 3
    /\ Len(sorted_titles[1][1]) > Len(sorted_titles[2][1])
    /\ Len(sorted_titles[2][1]) = Len(sorted_titles[3][1])
    /\ \E r1, r2 \in Inserted : r1.pass = 1 /\ r2.pass = 3

\* Plan-then-apply for the Markdown operation.  The plan: for each candidate
\* in the order of sorted_titles, the occurrences the pattern finds in the
\* original document that overlap no occurrence accepted before.
RECURSIVE MdPlan(_, _, _, _)
MdPlan(titles, k, doc, accepted) ==
    IF k > Len(titles) THEN accepted
    ELSE LET title == titles[k][1]
             taken == UNION {r.at..(r.at + Len(r.title) - 1) : r \in accepted}
             ms == MdMatches(doc, title, 1)
             free == {m \in 1..Len(ms) :
                        (ms[m]..(ms[m] + Len(title) - 1)) \cap taken = {}}
         IN  MdPlan(titles, k + 1, doc,
                    accepted \cup {[at |-> ms[m], title |-> title,
                                    url |-> titles[k][2]] : m \in free})

\* The apply phase: every accepted occurrence of the original document is
\* replaced by its link, the rest of the document is copied.
RECURSIVE MdApply(_, _, _)
MdApply(doc, pos, accepted) ==
    IF pos > Len(doc) THEN <<>>
    ELSE IF \E r \in accepted : r.at = pos
         THEN LET r == CHOOSE r \in accepted : r.at = pos
              IN  ExpandTemplate(MdReplacement(r.title, r.url),
                                 SubSeq(doc, pos, pos + Len(r.title) - 1))
                      \o MdApply(doc, pos + Len(r.title), accepted)
    ELSE <<doc[pos]>> \o MdApply(doc, pos + 1, accepted)

\* C25: the text link_keywords_in_markdown returns, by substituting one
\* candidate after the other in the text as rewritten so far, is the text of
\* the two-phase algorithm that accepts occurrences against the original
\* document and then applies all replacements.
MdEqualsPlanThenApply ==
    (Done /\ calls = 1) =>
        result = MdApply(content, 1, MdPlan(sorted_titles, 1, content, {}))

\* Before index i of s there is a "<" with no ">" anywhere after it.
UnterminatedTagBefore(s, i) ==
    \E p \in 1..i - 1 :
        /\ s[p] = "<"
        /\ \A q \in p + 1..Len(s) : s[q] # ">"

\* C26: when the document has a "<" that no later ">" closes, no occurrence
\* after that "<" is linked, whatever text stands before it.
HtmlFailsClosed ==
    \A r \in Inserted :
        (calls = 1 /\ r.pass = 1 /\ ~Contains(r.title, <<"<">>))
        => ~UnterminatedTagBefore(content, r.at)

\* The links of the first pass of a Markdown call, in document order, and
\* the index at which the k-th of them starts in the text after that pass.
FirstPassLinks == SelectSeq(inserted, LAMBDA r : r.pass = 1)

FirstPassLinkLen(r) ==
    Len(ExpandTemplate(MdReplacement(r.title, r.url), r.text))

FirstPassLinkStart(k) ==
    LET r == FirstPassLinks[k]
    IN  r.at + (k - 1) * (FirstPassLinkLen(r) - Len(r.title))

\* C27: the replacements of a call do not interleave: an occurrence that the
\* second pass replaces overlaps no link that the first pass put in.
MdLinkedSpansDisjoint ==
    calls = 1 =>
      \A r \in Inserted :
        r.pass = 2 =>
          \A k \in 1..Len(FirstPassLinks) :
              Disjoint(r.at, Len(r.title), FirstPassLinkStart(k),
                       FirstPassLinkLen(FirstPassLinks[k]))

\* C28: every anchor link_keywords_in_html has inserted carries the URL of
\* the one candidate whose text equals the anchor's body ignoring case, and
\* it stays in the text as it was inserted, href, class and body, while the
\* later candidates are processed.
HtmlAnchorsKeepTarget ==
    calls = 1 =>
      \A r \in Inserted :
        /\ \E k \in 1..Len(sorted_titles) :
              /\ sorted_titles[k] = <<r.title, r.url>>
              /\ \A j \in 1..Len(sorted_titles) :
                    Lower(sorted_titles[j][1]) = Lower(r.text) <=> j = k
        /\ Contains(result, HtmlAnchor(r.url, r.title, r.text))

\* C29: in every pass each occurrence of the candidate is accepted or
\* rejected on the text as it stood when the pass began: after the pass the
\* k-th occurrence stands wrapped where that text admits it and unwrapped
\* where it does not, whatever the pass did to the occurrences before it.
PassDecidesOnItsInput ==
    [][(pc = "loop" /\ idx' = idx + 1) =>
         LET title == sorted_titles[idx][1]
             target_url == sorted_titles[idx][2]
             n == Len(title)
             ms == HtmlMatches(result, title, 1)
             group0(k) == SubSeq(result, ms[k], ms[k] + n - 1)
             ok(k) == HtmlValid(result, ms[k], n)
             extra == Len(HtmlAnchor(target_url, title, title)) - n
             at(k) == ms[k] + extra * Cardinality({j \in 1..k - 1 : ok(j)})
         IN  \A k \in 1..Len(ms) :
                 IsAt(result',
                      IF ok(k) THEN HtmlAnchor(target_url, title, group0(k))
                      ELSE group0(k),
                      at(k))]_vars

\* A pass has wrapped two occurrences of a candidate whose anchor, with a "<"
\* in its title attribute, leaves the tags before the later occurrence
\* unbalanced.
PassDecidesOnItsInputWitness ==
    /\ Done
    /\ \E r1, r2 \in Inserted :
          /\ r1.pass = r2.pass
          /\ r1.at < r2.at
          /\ Contains(r1.title, <<"<">>)

\* C30: under every interleaving of a writing transaction with sitemap
\* requests, once the transaction is committed no cache file is in place
\* that was written from the store as it was before the commit: while no
\* transaction is open, a cache file holds the sitemap of the store.
NoStaleCacheAfterCommit ==
    (session.pc = "idle" /\ cache_file.exists) =>
        cache_file.text = build_sitemap_xml(categories, keywords, aliases)

====
